---------------------------- MODULE Spec2Model ----------------------------
(***************************************************************************)
(* A model of two parts of mirp:                                           *)
(*  - ImageITKFileStack.complete (src/mirp/importData/imageITKFileStack.py)*)
(*    which derives the geometry of a volume from its slice files;         *)
(*  - CTImage.update_image_data / normalise_intensities / scale_intensities*)
(*    (src/mirp/_images/ct_image.py), which keep a CTImage on whole        *)
(*    Hounsfield units and turn it into a GenericImage when the            *)
(*    intensities stop being Hounsfield units.                             *)
(*                                                                         *)
(* Numbers.  Slice origins and nominal spacings are whole numbers of       *)
(* length units.  A double that the code computes (a distance, a mean) is  *)
(* kept in decimal digits, Decimals + GuardDigits of them after the point, *)
(* in a number of several limbs; a value the code has rounded with         *)
(* np.around(., 5) is a whole number of 10^-5 units.  Where the outcome    *)
(* hangs on the last bit of a double (a ratio of exactly 1.2) the doubles  *)
(* are computed bit by bit.  NaN is a value of its own.                    *)
(***************************************************************************)
EXTENDS Integers, Sequences, FiniteSets

VARIABLES
    \* ---- ImageITKFileStack ----
    stack_pc,             \* "created" | "completed" | "raised"
    stack_error,          \* "none", or the exception complete() raised
    image_file_objects,   \* the stack's slice files, in list order
    image_metadata,       \* the stack's own image_metadata attribute
    image_origin,         \* None or (z, y, x)
    image_spacing,        \* None or (z, y, x) of floats
    image_orientation,    \* None or 3 rows of 3 quotients
    image_dimension,      \* None or (slices, height, width)
    slice_positions,      \* None or the cumulative positions
    warnings,             \* the warnings emitted, in order
    position_table,       \* complete()'s local: the sorted table
    slice_spacings,       \* complete()'s local: image_slice_spacing (l.57-60)
    multipliers,          \* complete()'s local: image_slice_spacing_multiplier
    resolved_spacing,     \* complete()'s local: image_slice_spacing (l.79)
    \* ---- images ----
    heap,                 \* object id -> image object
    cur,                  \* id of the entity the caller holds
    prev,                 \* id of the entity the last call was made on
    last_call             \* the last call and its arguments

stack_vars == << stack_pc, stack_error, image_file_objects, image_metadata,
                 image_origin, image_spacing, image_orientation,
                 image_dimension, slice_positions, warnings, position_table,
                 slice_spacings, multipliers, resolved_spacing >>
image_vars == << heap, cur, prev, last_call >>
vars == << stack_vars, image_vars >>

-----------------------------------------------------------------------------
(* Bounds of the model. *)
MaxSlices == 3
MaxZ == 3
MaxShift == 1
GuardDigits == 12
MaxCalls == 3

(* np.around(., 5) at lines 76, 79, 94-96. *)
Decimals == 5

(* The bits of the mantissa of a double (np.float64). *)
MantissaBits == 53

\* The irregularity threshold 1.2 of lines 68 and 79, as a fraction.
ThresholdNum == 12
ThresholdDen == 10

\* An attribute that has not been assigned, or holds None.  Every assigned
\* value of the attributes below is a non-empty tuple.
None == << >>

-----------------------------------------------------------------------------
(* Whole numbers of any size: the limbs of a number in base 10^4, the      *)
(* lowest first, without zero limbs at the top; zero has no limbs.         *)

RECURSIVE Pow10(_)
Pow10(n) == IF n = 0 THEN 1 ELSE 10 * Pow10(n - 1)

RECURSIVE Pow2(_)
Pow2(n) == IF n = 0 THEN 1 ELSE 2 * Pow2(n - 1)

Abs(a) == IF a < 0 THEN -a ELSE a
Min(a, b) == IF a < b THEN a ELSE b

LimbDigits == 4
Base == Pow10(LimbDigits)

RECURSIVE BigOf(_)
BigOf(n) == IF n = 0 THEN << >> ELSE << n % Base >> \o BigOf(n \div Base)

RECURSIVE BigToInt(_)
BigToInt(x) == IF x = << >> THEN 0 ELSE Head(x) + Base * BigToInt(Tail(x))

RECURSIVE BigTrim(_)
BigTrim(x) ==
    IF x = << >> THEN << >>
    ELSE IF x[Len(x)] = 0 THEN BigTrim(SubSeq(x, 1, Len(x) - 1))
    ELSE x

RECURSIVE BigAddCarry(_, _, _)
BigAddCarry(x, y, c) ==
    IF x = << >> /\ y = << >> THEN BigOf(c)
    ELSE IF x = << >> THEN BigAddCarry(<< 0 >>, y, c)
    ELSE IF y = << >> THEN BigAddCarry(x, << 0 >>, c)
    ELSE << (Head(x) + Head(y) + c) % Base >>
             \o BigAddCarry(Tail(x), Tail(y), (Head(x) + Head(y) + c) \div Base)

BigAdd(x, y) == BigAddCarry(x, y, 0)

RECURSIVE BigSum(_)
BigSum(s) == IF s = << >> THEN << >> ELSE BigAdd(Head(s), BigSum(Tail(s)))

RECURSIVE BigTimesCarry(_, _, _)
BigTimesCarry(x, m, c) ==
    IF x = << >> THEN BigOf(c)
    ELSE << (Head(x) * m + c) % Base >>
             \o BigTimesCarry(Tail(x), m, (Head(x) * m + c) \div Base)

\* x * m for a whole number m of at most five digits.
BigTimes(x, m) == IF m = 0 THEN << >> ELSE BigTimesCarry(x, m, 0)

\* x * Base^limbs
BigShift(x, limbs) == IF x = << >> THEN << >> ELSE [i \in 1..limbs |-> 0] \o x

RECURSIVE BigMul(_, _)
BigMul(x, y) ==
    IF y = << >> THEN << >>
    ELSE BigAdd(BigTimes(x, Head(y)), BigShift(BigMul(x, Tail(y)), 1))

BigLess(x, y) ==
    IF Len(x) # Len(y) THEN Len(x) < Len(y)
    ELSE \E i \in 1..Len(x) :
            /\ x[i] < y[i]
            /\ \A j \in (i + 1)..Len(x) : x[j] = y[j]

BigLeq(x, y) == ~BigLess(y, x)

\* floor(x / d) for a whole number d of at most five digits: from limb i
\* downwards, r the remainder and q the quotient so far.
RECURSIVE BigDivFrom(_, _, _, _, _)
BigDivFrom(x, d, i, r, q) ==
    IF i = 0 THEN BigTrim(q)
    ELSE BigDivFrom(x, d, i - 1, (r * Base + x[i]) % d,
                    << (r * Base + x[i]) \div d >> \o q)

BigDiv(x, d) == BigDivFrom(x, d, Len(x), 0, << >>)

\* 2^n
RECURSIVE BigPow2(_)
BigPow2(n) ==
    IF n < 15 THEN BigOf(Pow2(n)) ELSE BigTimes(BigPow2(n - 15), Pow2(15))

\* x * 10^n, and 10^n
BigTimesPow10(x, n) ==
    BigShift(BigTimes(x, Pow10(n % LimbDigits)), n \div LimbDigits)

BigPow10(n) == BigTimesPow10(<< 1 >>, n)

\* floor(x / 10^n)
BigDivPow10(x, n) ==
    IF Len(x) <= n \div LimbDigits THEN << >>
    ELSE BigDiv(SubSeq(x, n \div LimbDigits + 1, Len(x)), Pow10(n % LimbDigits))

\* The largest limb d in lo..(hi - 1) for which x with its limb i set to d
\* has a square of at most n.
RECURSIVE LimbSearch(_, _, _, _, _)
LimbSearch(x, i, lo, hi, n) ==
    IF hi - lo = 1 THEN lo
    ELSE IF BigLeq(BigMul(BigTrim([x EXCEPT ![i] = (lo + hi) \div 2]),
                          BigTrim([x EXCEPT ![i] = (lo + hi) \div 2])), n)
         THEN LimbSearch(x, i, (lo + hi) \div 2, hi, n)
         ELSE LimbSearch(x, i, lo, (lo + hi) \div 2, n)

RECURSIVE SqrtLimbs(_, _, _)
SqrtLimbs(x, i, n) ==
    IF i = 0 THEN BigTrim(x)
    ELSE SqrtLimbs([x EXCEPT ![i] = LimbSearch(x, i, 0, Base, n)], i - 1, n)

\* floor(sqrt(n)): the limbs of the root from the highest to the lowest.
BigISqrt(n) ==
    SqrtLimbs([i \in 1..((Len(n) + 1) \div 2) |-> 0], (Len(n) + 1) \div 2, n)

-----------------------------------------------------------------------------
(* The doubles of the code. *)

\* The decimal digits kept of a double, and one 10^-5 unit.
WorkDigits == Decimals + GuardDigits
RoundUnit == Pow10(Decimals)

\* sqrt(n) of a whole number n in WorkDigits digits, rounded down, and
\* whether nothing was cut off.
RootDigits(n) ==
    [v     |-> BigISqrt(BigTimesPow10(BigOf(n), 2 * WorkDigits)),
     exact |-> \E k \in 0..n : k * k = n]

\* The roots of the squared distances that two origins of the model can
\* have, worked out once.
MaxSquare == MaxZ * MaxZ + 1 + (MaxShift \div 2) * (MaxShift \div 2)

RECURSIVE RootsUpTo(_)
RootsUpTo(n) ==
    IF n < 0 THEN << >> ELSE Append(RootsUpTo(n - 1), RootDigits(n))

RootTable == RootsUpTo(MaxSquare)

\* np.sqrt of a whole number: the number itself and the digits of its root.
Sqrt(n) ==
    LET root == IF n <= MaxSquare THEN RootTable[n + 1] ELSE RootDigits(n)
    IN  [sq |-> n, v |-> root.v, exact |-> root.exact]

\* A double in decimal digits: sign * (sum / count) / 10^digits, where the
\* sum given lies below the true sum by less than inexact units.  A root,
\* and a whole number, as such doubles.
Root(r) ==
    [sign |-> 1, sum |-> r.v, digits |-> WorkDigits, count |-> 1,
     inexact |-> IF r.exact THEN 0 ELSE 1]

Exact(n) ==
    [sign |-> IF n < 0 THEN -1 ELSE 1, sum |-> BigOf(Abs(n)), digits |-> 0,
     count |-> 1, inexact |-> 0]

\* twice, two times the sum, lies above mid, the middle between q and
\* q + 1 units; on the middle the even neighbour is taken, and a sum that
\* was rounded down lies above it.
RoundsUp(w, q, mid, twice) ==
    \/ BigLess(mid, twice)
    \/ mid = twice /\ (w.inexact > 0 \/ q % 2 = 1)

\* q, the units of 10^-5 in w rounded down, or the next number.
AroundFrom(w, q) ==
    w.sign * (q + IF RoundsUp(w, q,
                              BigTimesPow10(BigOf((2 * q + 1) * w.count),
                                            w.digits - Decimals),
                              BigAdd(BigTimes(w.sum, 2), BigOf(w.inexact)))
                  THEN 1 ELSE 0)

\* np.around(w, 5): to the nearest number with Decimals digits, a tie to the
\* even neighbour; a number of no more digits is left as it is.
Around(w) ==
    IF w.digits <= Decimals /\ w.count = 1
    THEN w.sign * BigToInt(w.sum) * Pow10(Decimals - w.digits)
    ELSE AroundFrom(w, BigToInt(BigDiv(BigDivPow10(w.sum, w.digits - Decimals),
                                       w.count)))

\* np.around(., 5) of the roots of the table, worked out once.
RECURSIVE AroundUpTo(_)
AroundUpTo(n) ==
    IF n < 0 THEN << >> ELSE Append(AroundUpTo(n - 1), Around(Root(Sqrt(n))))

AroundTable == AroundUpTo(MaxSquare)

\* np.around(r, 5) of a root r.
AroundRoot(r) ==
    IF r.sq <= MaxSquare THEN AroundTable[r.sq + 1] ELSE Around(Root(r))

\* A double: NaN, or a number in rounded precision.
NaN == [nan |-> TRUE, v |-> 0]
Float(v) == [nan |-> FALSE, v |-> v]

\* The double a / b of two rounded-precision numbers, kept as the quotient
\* itself; anything divided by NaN is NaN.
Quotient(a, b) ==
    IF b.nan THEN [nan |-> TRUE, num |-> 0, den |-> 1]
    ELSE [nan |-> FALSE, num |-> a, den |-> b.v]

\* The number of bits of a whole number n >= 1.
BitLength(n) ==
    CHOOSE b \in 1..31 : Pow2(b - 1) <= n /\ (b = 31 \/ n < Pow2(b))

\* n * 4^s for the s that gives the root MantissaBits bits.
ScaleUp(n) ==
    LET s == (2 * MantissaBits - BitLength(n)) \div 2
    IN  [n |-> BigMul(BigOf(n), BigPow2(2 * s)), s |-> s]

\* x, the root of n rounded down, rounded to the nearest instead.
RoundRoot(n, x) ==
    IF BigLess(BigMul(x, BigAdd(x, << 1 >>)), n) THEN BigAdd(x, << 1 >>) ELSE x

\* The double np.sqrt(n) of a whole number n >= 1, as m / 2^s.
DoubleSqrtOf(scaled) ==
    [m |-> RoundRoot(scaled.n, BigISqrt(scaled.n)), s |-> scaled.s]

DoubleSqrt(n) == DoubleSqrtOf(ScaleUp(n))

\* The double 1.2, as a mantissa: the whole number nearest to
\* 1.2 * 2^(MantissaBits - 1).
ThresholdDouble ==
    BigDiv(BigAdd(BigTimes(BigPow2(MantissaBits - 1), 2 * ThresholdNum),
                  BigOf(ThresholdDen)),
           2 * ThresholdDen)

\* The double x / y, for doubles x and y with a quotient between 1 and 2,
\* is greater than the double 1.2: x / y lies above the middle between that
\* double and the next one, or on it when the tie goes upwards.
QuotientAbove(x, y) ==
    LET l == BigMul(BigPow2(MantissaBits + y.s - Min(x.s, y.s)), x.m)
        r == BigMul(BigPow2(x.s - Min(x.s, y.s)),
                    BigMul(BigAdd(BigTimes(ThresholdDouble, 2), << 1 >>), y.m))
    IN  \/ BigLess(r, l)
        \/ l = r /\ Head(ThresholdDouble) % 2 = 1

-----------------------------------------------------------------------------
(* Sequences. *)

RECURSIVE SumSeq(_)
SumSeq(s) == IF s = << >> THEN 0 ELSE Head(s) + SumSeq(Tail(s))

\* np.min of whole numbers.
MinSeq(s) == CHOOSE m \in {s[i] : i \in DOMAIN s} :
                \A i \in DOMAIN s : m <= s[i]

\* np.min of roots: the root of the smallest number.
MinValue(s) == CHOOSE m \in {s[i] : i \in DOMAIN s} :
                  \A i \in DOMAIN s : m.sq <= s[i].sq

\* np.diff
Diff(s) == [i \in 1..(Len(s) - 1) |-> s[i + 1] - s[i]]

\* np.cumsum
CumSum(s) == [i \in 1..Len(s) |-> SumSeq(SubSeq(s, 1, i))]

\* s[::-1]
Reversed(s) == [i \in 1..Len(s) |-> s[Len(s) + 1 - i]]

\* The members of s for which keep is TRUE: a[mask].
RECURSIVE Masked(_, _)
Masked(s, keep) ==
    IF s = << >> THEN << >>
    ELSE IF Head(keep) THEN << Head(s) >> \o Masked(Tail(s), Tail(keep))
         ELSE Masked(Tail(s), Tail(keep))

-----------------------------------------------------------------------------
(* Slice files and their metadata (the itk image a slice file reads). *)

\* The metadata the slices of a stack share: the spacing as GetSpacing()
\* gives it (x, y, z), the direction matrix flattened row by row (its
\* in-plane axes swapped and one flipped), and the size as GetSize() gives
\* it (x, y, z).
SliceMetadata ==
    [spacing   |-> << 2, 3, 1 >>,
     direction |-> << 0, -1, 0,   1, 0, 0,   0, 0, 1 >>,
     size      |-> << 4, 5, 1 >>]

\* The size of a slice that does not fit the others.
OddSize == << 4, 6, 1 >>

\* The in-plane part (x, y) of an origin: 0, 1, 2, ... stand for
\* (0, 0), (1, 0), (0, 1), (1, 1), (0, 2), ...
InPlane(k) == << k % 2, k \div 2 >>

\* Origins as GetOrigin() gives them: (x, y, z).
Origins == { << InPlane(k)[1], InPlane(k)[2], z >> :
                k \in 0..MaxShift, z \in 0..MaxZ }

\* The itk image of a slice at origin o.
ItkImage(o, meta) ==
    [origin |-> o, spacing |-> meta.spacing,
     direction |-> meta.direction, size |-> meta.size]

GetOrigin(image) == image.origin
GetSpacing(image) == image.spacing
GetDirection(image) == image.direction
GetSize(image) == image.size

\* A slice file: file is the position it had in the list handed to the
\* constructor (the identity of the object), on_disk the itk image its
\* file holds, image_metadata the attribute, None until it is loaded.
SliceFile(k, o, meta) ==
    [file |-> k, on_disk |-> ItkImage(o, meta), image_metadata |-> None]

\* image_object.image_metadata of a slice whose metadata is loaded.
Metadata(obj) == obj.image_metadata[1]

\* The stack a caller hands over: a non-empty list of slice files with the
\* origins os; with odd, the last of them has a size of its own.
Stack(os, odd) ==
    [k \in DOMAIN os |->
        SliceFile(k - 1, os[k],
                  IF odd /\ k = Len(os)
                  THEN [SliceMetadata EXCEPT !.size = OddSize]
                  ELSE SliceMetadata)]

-----------------------------------------------------------------------------
(* ImageITKFileStack.complete, step by step. *)

\* Line 22, load_metadata(): the metadata of every slice is read from its
\* file; a slice that has its metadata keeps it.
LoadMetadata(objs) ==
    [k \in DOMAIN objs |->
        IF objs[k].image_metadata = None
        THEN [objs[k] EXCEPT !.image_metadata = << objs[k].on_disk >>]
        ELSE objs[k]]

\* Lines 28-45, before the sort: one row per slice; index is the row label
\* pandas gives it (0, 1, ...).
PositionFrame(objs) ==
    [ii \in 1..Len(objs) |->
        LET slice_origin == Reversed(GetOrigin(Metadata(objs[ii])))
        IN  [index |-> ii - 1,
             original_object_order |-> ii - 1,
             position_z |-> slice_origin[1],
             position_y |-> slice_origin[2],
             position_x |-> slice_origin[3]]]

\* The order of sort_values(by=["position_z", "position_y", "position_x"]).
RowBefore(a, b) ==
    \/ a.position_z < b.position_z
    \/ a.position_z = b.position_z /\ a.position_y < b.position_y
    \/ a.position_z = b.position_z /\ a.position_y = b.position_y
       /\ a.position_x < b.position_x

\* Insert row r into the sorted rows s, after every row that is not greater
\* (the sort on several columns is stable).
RECURSIVE InsertRow(_, _)
InsertRow(s, r) ==
    IF s = << >> THEN << r >>
    ELSE IF RowBefore(r, Head(s)) THEN << r >> \o s
         ELSE << Head(s) >> \o InsertRow(Tail(s), r)

RECURSIVE SortRows(_, _)
SortRows(done, todo) ==
    IF todo = << >> THEN done
    ELSE SortRows(InsertRow(done, Head(todo)), Tail(todo))

\* DataFrame.sort_values: the rows are reordered and keep their labels.
SortValues(frame) == SortRows(<< >>, frame)

\* position_table.original_object_order[ii]: a Series with an integer index
\* is read by label, so this is the value in the row labelled ii.
SeriesGetItem(table, ii) ==
    LET row == CHOOSE r \in {table[k] : k \in DOMAIN table} : r.index = ii
    IN  row.original_object_order

\* Lines 48-51.
SortedFileObjects(objs, table) ==
    [k \in 1..Len(table) |-> objs[SeriesGetItem(table, k - 1) + 1]]

\* .values of a column: the column in row order.
ColumnZ(table) == [k \in 1..Len(table) |-> table[k].position_z]
ColumnY(table) == [k \in 1..Len(table) |-> table[k].position_y]
ColumnX(table) == [k \in 1..Len(table) |-> table[k].position_x]

\* Lines 57-60: the distance between consecutive rows.
SliceSpacing(table) ==
    LET dx == Diff(ColumnX(table))
        dy == Diff(ColumnY(table))
        dz == Diff(ColumnZ(table))
    IN  [k \in 1..(Len(table) - 1) |->
            Sqrt(dx[k] * dx[k] + dy[k] * dy[k] + dz[k] * dz[k])]

\* Line 66: a spacing divided by the smallest spacing, as a double: 0 / 0
\* is nan, a positive number over 0 is inf; a quotient of two roots is
\* kept as the two numbers under the roots.
Multiplier(spacing, min_slice_spacing) ==
    IF min_slice_spacing.sq = 0
    THEN [kind |-> IF spacing.sq = 0 THEN "nan" ELSE "inf", num |-> 0, den |-> 1]
    ELSE [kind |-> "num", num |-> spacing.sq, den |-> min_slice_spacing.sq]

\* Lines 63-66.
Multipliers(spacing) ==
    LET min_slice_spacing == MinValue(spacing)
    IN  [k \in DOMAIN spacing |-> Multiplier(spacing[k], min_slice_spacing)]

\* sqrt(a) / sqrt(b) > 1.2 in doubles, for whole numbers a, b >= 1.  Off
\* the value 1.2 the doubles are far closer to the numbers than the numbers
\* are to 1.2, and the squares tell; on it the last bit of the doubles does.
RatioAbove(a, b) ==
    IF ThresholdDen * ThresholdDen * a = ThresholdNum * ThresholdNum * b
    THEN QuotientAbove(DoubleSqrt(a), DoubleSqrt(b))
    ELSE ThresholdDen * ThresholdDen * a > ThresholdNum * ThresholdNum * b

\* multiplier > 1.2 (line 68); a comparison with nan is False.
ExceedsThreshold(m) ==
    \/ m.kind = "inf"
    \/ m.kind = "num" /\ RatioAbove(m.num, m.den)

\* WithinThreshold with the two sides of the division swapped.
WithinThresholdSwapped(m) ==
    m.kind = "num" /\ ~RatioAbove(m.den, m.num)

\* multiplier <= 1.2 (line 79).
WithinThreshold(m) ==
    m.kind = "num" /\ ~RatioAbove(m.num, m.den)

\* AnyExceeds with np.all in the place of np.any.
AllExceed(multiplier) ==
    \A k \in DOMAIN multiplier : ExceedsThreshold(multiplier[k])

\* np.any(multiplier > 1.2), line 68.
AnyExceeds(multiplier) ==
    \E k \in DOMAIN multiplier : ExceedsThreshold(multiplier[k])

\* np.mean of a non-empty array of roots.
Mean(s) ==
    [sign    |-> 1,
     sum     |-> BigSum([i \in DOMAIN s |-> s[i].v]),
     digits  |-> WorkDigits,
     count   |-> Len(s),
     inexact |-> Cardinality({i \in DOMAIN s : ~s[i].exact})]

\* ResolvedSpacing without the mask: the mean of all spacings.
ResolvedSpacingOfAll(spacing, multiplier) ==
    Float(Around(Mean(spacing)))

\* Line 79: the mean of the spacings within the threshold, rounded; the
\* mean of an empty array is nan.
ResolvedSpacing(spacing, multiplier) ==
    LET keep == [k \in DOMAIN spacing |-> WithinThreshold(multiplier[k])]
        kept == Masked(spacing, keep)
    IN  IF kept = << >> THEN NaN ELSE Float(Around(Mean(kept)))

\* Line 76.
SlicePositions(spacing) ==
    CumSum(<< 0 >> \o [k \in DOMAIN spacing |-> AroundRoot(spacing[k])])

\* Lines 82-86.
ImageSpacing(first, image_slice_spacing) ==
    LET nominal == Reversed(GetSpacing(Metadata(first)))
        spacing == [k \in 1..3 |-> Float(nominal[k] * RoundUnit)]
    IN  IF spacing[1] = image_slice_spacing
        THEN spacing
        ELSE << image_slice_spacing, spacing[2], spacing[3] >>

\* Lines 93-97.
ZOrientation(table, image_slice_spacing) ==
    << Quotient(Around(Exact(MinSeq(Diff(ColumnZ(table))))), image_slice_spacing),
       Quotient(Around(Exact(MinSeq(Diff(ColumnY(table))))), image_slice_spacing),
       Quotient(Around(Exact(MinSeq(Diff(ColumnX(table))))), image_slice_spacing) >>

\* Lines 89-90 and 100: the direction matrix read backwards, in rows of
\* three, with the first row replaced.
ImageOrientation(first, z_orientation) ==
    LET flat == Reversed(GetDirection(Metadata(first)))
        row(r) == [c \in 1..3 |-> Quotient(flat[3 * (r - 1) + c], Float(1))]
    IN  << z_orientation, row(2), row(3) >>

\* Lines 104-106: the size is read from the image_metadata of the stack
\* itself.
ImageDimension(metadata, table) ==
    LET image_dimension_ == Reversed(GetSize(metadata[1]))
    IN  << Len(table), image_dimension_[2], image_dimension_[3] >>

\* The warning of lines 69-73; it names np.unique of the spacings.
SpacingWarning(spacing) ==
    [category |-> "UserWarning",
     text     |-> "Inconsistent distance between slice origins of subsequent slices",
     spacings |-> {spacing[k] : k \in DOMAIN spacing}]

\* A warning of numpy.
RuntimeWarning(text) ==
    [category |-> "RuntimeWarning", text |-> text, spacings |-> {}]

\* The warnings of the division of line 66: with a smallest spacing of 0
\* the positive spacings divide by zero and the spacings of 0 give 0 / 0.
DivideWarnings(spacing) ==
    IF MinValue(spacing).sq # 0 THEN << >>
    ELSE (IF \E k \in DOMAIN spacing : spacing[k].sq # 0
          THEN << RuntimeWarning("divide by zero encountered in divide") >>
          ELSE << >>)
         \o << RuntimeWarning("invalid value encountered in divide") >>

\* The warnings of np.mean at line 79 when nothing is within the threshold.
MeanWarnings(multiplier) ==
    IF \E k \in DOMAIN multiplier : WithinThreshold(multiplier[k]) THEN << >>
    ELSE << RuntimeWarning("Mean of empty slice."),
            RuntimeWarning("invalid value encountered in scalar divide") >>

\* Line 109, check(raise_error=True): all slices have the in-plane size of
\* the first, the sorted positions increase strictly along z, and every
\* component of the spacing is a positive number.
Check(objs, table, spacing) ==
    /\ \A k \in DOMAIN objs :
          /\ GetSize(Metadata(objs[k]))[1] = GetSize(Metadata(objs[1]))[1]
          /\ GetSize(Metadata(objs[k]))[2] = GetSize(Metadata(objs[1]))[2]
    /\ \A k \in 1..(Len(table) - 1) : table[k].position_z < table[k + 1].position_z
    /\ \A k \in DOMAIN spacing : ~spacing[k].nan /\ spacing[k].v > 0

\* complete().  The conjuncts follow the statements; a primed local is the
\* value the statement before gave it.  Lines 24-25 call _complete_modality and
\* _complete_sample_name of the parent class, which is outside the sources
\* at hand; they are taken to leave the slices and the geometry as they
\* are.  With one slice np.diff gives empty
\* arrays and np.min of an empty array raises ValueError at line 63, after
\* the list and the origin have been assigned.  A stack whose own
\* image_metadata is None raises AttributeError at line 104, after the
\* spacing and the orientation have been assigned.
Complete ==
    /\ stack_pc = "created"
    /\ position_table' = SortValues(PositionFrame(LoadMetadata(image_file_objects)))
    /\ image_file_objects' =
           SortedFileObjects(LoadMetadata(image_file_objects), position_table')
    /\ image_origin' = Reversed(GetOrigin(Metadata(image_file_objects'[1])))
    /\ slice_spacings' = SliceSpacing(position_table')
    /\ IF slice_spacings' = << >>
       THEN /\ stack_pc' = "raised"
            /\ stack_error' = "ValueError"
            /\ UNCHANGED << multipliers, resolved_spacing, image_spacing,
                            image_orientation, image_dimension,
                            slice_positions, warnings >>
       ELSE /\ multipliers' = Multipliers(slice_spacings')
            /\ slice_positions' =
                   IF AnyExceeds(multipliers')
                   THEN SlicePositions(slice_spacings')
                   ELSE slice_positions
            /\ warnings' =
                   warnings
                   \o DivideWarnings(slice_spacings')
                   \o (IF AnyExceeds(multipliers')
                       THEN << SpacingWarning(slice_spacings') >>
                       ELSE << >>)
                   \o MeanWarnings(multipliers')
            /\ resolved_spacing' = ResolvedSpacing(slice_spacings', multipliers')
            /\ image_spacing' = ImageSpacing(image_file_objects'[1], resolved_spacing')
            /\ image_orientation' =
                   ImageOrientation(image_file_objects'[1],
                                    ZOrientation(position_table', resolved_spacing'))
            /\ IF image_metadata = None
               THEN /\ stack_pc' = "raised"
                    /\ stack_error' = "AttributeError"
                    /\ UNCHANGED image_dimension
               ELSE /\ image_dimension' = ImageDimension(image_metadata, position_table')
                    /\ IF Check(image_file_objects', position_table', image_spacing')
                       THEN stack_pc' = "completed" /\ stack_error' = "none"
                       ELSE stack_pc' = "raised"
                            /\ stack_error' = "FatalGeometryMismatch"
    /\ UNCHANGED << image_metadata, image_vars >>

\* No image is looked at while a stack is assembled.
NoImage ==
    /\ heap = << >>
    /\ cur = 0
    /\ prev = 0
    /\ last_call = [op |-> "none", n |-> 0]

\* A stack as its constructor leaves it: the slice files in the order they
\* were handed over, their metadata not loaded; the stack's own
\* image_metadata None or the itk image of a slice.
InitStack ==
    /\ stack_pc = "created"
    /\ stack_error = "none"
    /\ \E n \in 1..MaxSlices : \E os \in [1..n -> Origins] : \E odd \in BOOLEAN :
          /\ image_file_objects = Stack(os, odd)
          /\ \E unset \in BOOLEAN :
                image_metadata =
                    IF unset THEN None ELSE << image_file_objects[1].on_disk >>
    /\ image_origin = None
    /\ image_spacing = None
    /\ image_orientation = None
    /\ image_dimension = None
    /\ slice_positions = None
    /\ warnings = << >>
    /\ position_table = << >>
    /\ slice_spacings = << >>
    /\ multipliers = << >>
    /\ resolved_spacing = None
    /\ NoImage

NextStack == Complete

SpecStack == InitStack /\ [][NextStack]_vars

-----------------------------------------------------------------------------
(* Images.  An image object is [class, image_data, geometry]; heap[id] is  *)
(* the object with identity id.  A voxel grid is a tuple of voxel values   *)
(* in halves of a unit (5 stands for 2.5), together with the               *)
(* transformations applied to it since whose arithmetic lives in           *)
(* GenericImage, outside the sources at hand.                              *)

\* normalisation_method = None.
PyNone == "<None>"

\* The methods and scales a caller passes.
Methods == { PyNone, "none", "range", "relative_range", "quantile_range" }
Scales == { 0, 1, 2 }

\* The voxel grids an image is loaded with (None: no data), here the
\* values -1.5, 0.5 and 2.5, and the geometries (image_origin,
\* image_spacing, ...) it is given.
Grids == { None, << [values |-> << -3, 1, 5 >>, then |-> << >>] >> }
Geometries == { << [image_origin |-> << 0, 1, 2 >>, image_dimension |-> << 3, 5, 4 >>] >>,
                << [image_origin |-> << 3, 0, 0 >>, image_dimension |-> << 2, 5, 4 >>] >> }

\* np.round of a number of halves: to the nearest whole number, a half to
\* the even neighbour.
RoundHalfEven(h) ==
    IF h % 2 = 0 THEN h
    ELSE IF ((h - 1) \div 2) % 2 = 0 THEN h - 1 ELSE h + 1

\* np.round(image_data)
Rounded(image_data) ==
    IF image_data[1].then = << >>
    THEN << [image_data[1] EXCEPT
                !.values = [i \in DOMAIN @ |-> RoundHalfEven(@[i])]] >>
    ELSE IF image_data[1].then[Len(image_data[1].then)].op = "round"
    THEN image_data
    ELSE << [image_data[1] EXCEPT
                !.then = Append(@, [op |-> "round", by |-> PyNone])] >>

\* image_data * scale
Scaled(image_data, scale) ==
    IF image_data[1].then = << >>
    THEN << [image_data[1] EXCEPT
                !.values = [i \in DOMAIN @ |-> scale * @[i]]] >>
    ELSE << [image_data[1] EXCEPT
                !.then = Append(@, [op |-> "scale", by |-> scale])] >>

\* The voxels normalised by a method of GenericImage.
Normalised(image_data, normalisation_method) ==
    << [image_data[1] EXCEPT
           !.then = Append(@, [op |-> "normalise", by |-> normalisation_method])] >>

\* GenericImage(image_data=...): a new object without geometry.
GenericImage(image_data) ==
    [class |-> "GenericImage", image_data |-> image_data, geometry |-> None]

\* update_from_template: the geometry fields are copied from the template.
UpdateFromTemplate(image, template) ==
    [image EXCEPT !.geometry = template.geometry]

\* A call's outcome: the heap after it and what it returns, the identity of
\* an object of the heap or PyNone.
Returns(h, id) == [heap |-> h, ret |-> id]

\* GenericScaleIntensities handing back an object of the class CTImage.
GenericScaleIntensitiesPromoting(h, self, scale) ==
    IF h[self].image_data = None \/ scale = 1 THEN Returns(h, self)
    ELSE Returns(Append(h, [h[self] EXCEPT !.class = "CTImage",
                                           !.image_data = Scaled(@, scale)]),
                 Len(h) + 1)

\* GenericImage.scale_intensities called on object self of heap h: the
\* object itself without data or with a scale of 1, else a new object of
\* the same class with the intensities scaled; self is left as it is.
GenericScaleIntensities(h, self, scale) ==
    IF h[self].image_data = None \/ scale = 1 THEN Returns(h, self)
    ELSE Returns(Append(h, [h[self] EXCEPT !.image_data = Scaled(@, scale)]),
                 Len(h) + 1)

\* GenericImage.normalise_intensities: the object itself without data or
\* without a method, else a new object of the same class with the
\* intensities normalised.
GenericNormaliseIntensities(h, self, normalisation_method) ==
    IF h[self].image_data = None \/ normalisation_method \in {PyNone, "none"}
    THEN Returns(h, self)
    ELSE Returns(Append(h, [h[self] EXCEPT
                               !.image_data = Normalised(@, normalisation_method)]),
                 Len(h) + 1)

\* GenericImage.update_image_data: nothing to enforce on a plain image; the
\* call returns None.
GenericUpdateImageData(h, self) == Returns(h, PyNone)

\* CTImage.update_image_data (ct_image.py, lines 15-20): the data are
\* rounded in place; the call returns None on both branches (the bare
\* return of line 17, the end of the method after line 20).
CTImageUpdateImageData(h, self) ==
    IF h[self].image_data = None THEN Returns(h, PyNone)
    ELSE Returns([h EXCEPT ![self].image_data = Rounded(@)], PyNone)

\* CTImageScaleIntensities without the test of lines 58-59.
CTImageScaleIntensitiesNoIdentity(h, self, scale) ==
    LET super == GenericScaleIntensities(h, self, scale)
        image == super.heap[super.ret]
    IN  IF image.image_data = None THEN Returns(super.heap, self)
        ELSE LET new_image == UpdateFromTemplate(GenericImage(image.image_data), image)
             IN  Returns(Append(super.heap, new_image), Len(super.heap) + 1)

\* CTImage.scale_intensities (ct_image.py, lines 51-66) called on object
\* self of heap h.
CTImageScaleIntensities(h, self, scale) ==
    LET super == GenericScaleIntensities(h, self, scale)
        image == super.heap[super.ret]
    IN  IF image.image_data = None THEN Returns(super.heap, self)
        ELSE IF scale = 1 THEN Returns(super.heap, self)
        ELSE LET new_image == UpdateFromTemplate(GenericImage(image.image_data), image)
             IN  Returns(Append(super.heap, new_image), Len(super.heap) + 1)

\* CTImageNormaliseIntensities returning what the parent class returns, as
\* if lines 46-49 were "return image".
CTImageNormaliseIntensitiesNoDemotion(h, self, normalisation_method) ==
    GenericNormaliseIntensities(h, self, normalisation_method)

\* CTImage.normalise_intensities (ct_image.py, lines 22-49).
CTImageNormaliseIntensities(h, self, normalisation_method) ==
    LET super == GenericNormaliseIntensities(h, self, normalisation_method)
        image == super.heap[super.ret]
    IN  IF image.image_data = None THEN Returns(super.heap, self)
        ELSE IF normalisation_method = PyNone \/ normalisation_method = "none"
             THEN Returns(super.heap, self)
        ELSE LET new_image == UpdateFromTemplate(GenericImage(image.image_data), image)
             IN  Returns(Append(super.heap, new_image), Len(super.heap) + 1)

\* The method an object's class binds.
CallScaleIntensities(h, self, scale) ==
    IF h[self].class = "CTImage"
    THEN CTImageScaleIntensities(h, self, scale)
    ELSE GenericScaleIntensities(h, self, scale)

CallNormaliseIntensities(h, self, normalisation_method) ==
    IF h[self].class = "CTImage"
    THEN CTImageNormaliseIntensities(h, self, normalisation_method)
    ELSE GenericNormaliseIntensities(h, self, normalisation_method)

CallUpdateImageData(h, self) ==
    IF h[self].class = "CTImage"
    THEN CTImageUpdateImageData(h, self)
    ELSE GenericUpdateImageData(h, self)

\* The caller calls scale_intensities on the entity it holds and goes on
\* with the entity returned.
ScaleIntensities ==
    /\ last_call.n < MaxCalls
    /\ \E scale \in Scales :
          /\ last_call' = [op |-> "scale_intensities", n |-> last_call.n + 1,
                           arg |-> scale, receiver |-> heap[cur],
                           out |-> CallScaleIntensities(heap, cur, scale)]
          /\ heap' = last_call'.out.heap
          /\ cur' = last_call'.out.ret
          /\ prev' = cur
    /\ UNCHANGED stack_vars

NormaliseIntensities ==
    /\ last_call.n < MaxCalls
    /\ \E normalisation_method \in Methods :
          /\ last_call' = [op |-> "normalise_intensities", n |-> last_call.n + 1,
                           arg |-> normalisation_method, receiver |-> heap[cur],
                           out |-> CallNormaliseIntensities(heap, cur, normalisation_method)]
          /\ heap' = last_call'.out.heap
          /\ cur' = last_call'.out.ret
          /\ prev' = cur
    /\ UNCHANGED stack_vars

\* The caller calls update_image_data on the entity it holds; the call
\* returns nothing and the caller goes on with the same entity.
UpdateImageData ==
    /\ last_call.n < MaxCalls
    /\ last_call' = [op |-> "update_image_data", n |-> last_call.n + 1,
                     arg |-> PyNone, receiver |-> heap[cur],
                     out |-> CallUpdateImageData(heap, cur)]
    /\ heap' = last_call'.out.heap
    /\ cur' = cur
    /\ prev' = cur
    /\ UNCHANGED stack_vars

\* No stack is assembled while an image is transformed.
NoStack ==
    /\ stack_pc = "none"
    /\ stack_error = "none"
    /\ image_file_objects = << >>
    /\ image_metadata = None
    /\ image_origin = None
    /\ image_spacing = None
    /\ image_orientation = None
    /\ image_dimension = None
    /\ slice_positions = None
    /\ warnings = << >>
    /\ position_table = << >>
    /\ slice_spacings = << >>
    /\ multipliers = << >>
    /\ resolved_spacing = None

\* The caller holds one image: a CTImage as the import pipeline makes it
\* for CT data, or a GenericImage.
InitImage ==
    /\ \E class \in {"CTImage", "GenericImage"}, data \in Grids, geometry \in Geometries :
          heap = << [class |-> class, image_data |-> data, geometry |-> geometry] >>
    /\ cur = 1
    /\ prev = 0
    /\ last_call = [op |-> "none", n |-> 0]
    /\ NoStack

NextImage == ScaleIntensities \/ NormaliseIntensities \/ UpdateImageData

SpecImage == InitImage /\ [][NextImage]_vars

-----------------------------------------------------------------------------
(* Properties of ImageITKFileStack.complete, checked under SpecStack.      *)

Completed == stack_pc = "completed"
NumSlices == Len(image_file_objects)

\* complete() has assigned the spacing and the orientation: it returned, or
\* it raised at line 104 or in check().
Assembled ==
    \/ Completed
    \/ stack_pc = "raised"
       /\ stack_error \in {"AttributeError", "FatalGeometryMismatch"}

\* The warnings about the spacing among the warnings emitted.
IsSpacingWarning(w) == w.category = "UserWarning"
SpacingWarnings == SelectSeq(warnings, IsSpacingWarning)

\* a <= b in the order (z, then y, then x) of two canonical origins.
LexLeq(a, b) ==
    \/ a[1] < b[1]
    \/ a[1] = b[1] /\ a[2] < b[2]
    \/ a[1] = b[1] /\ a[2] = b[2] /\ a[3] <= b[3]

CanonicalOrigin(obj) == Reversed(GetOrigin(Metadata(obj)))

\* The squared distance between rows i and i + 1 of the sorted table, and
\* the smallest of them.
GapSquared(i) ==
    LET a == position_table[i]
        b == position_table[i + 1]
    IN  (b.position_z - a.position_z) * (b.position_z - a.position_z)
        + (b.position_y - a.position_y) * (b.position_y - a.position_y)
        + (b.position_x - a.position_x) * (b.position_x - a.position_x)

Gaps == 1..(Len(position_table) - 1)
MinGapSquared == MinSeq([i \in Gaps |-> GapSquared(i)])

\* Gap i is more than 1.2 times the smallest gap: any positive gap when the
\* smallest is 0, and else as the division of the two doubles tells.
IsOutlier(i) ==
    IF MinGapSquared = 0 THEN GapSquared(i) > 0
    ELSE RatioAbove(GapSquared(i), MinGapSquared)

\* Gap i over the smallest gap is a number that is at most 1.2.
IsRegular(i) == MinGapSquared > 0 /\ ~IsOutlier(i)

BigSquare(x) == BigMul(x, x)

\* v, in WorkDigits digits, is the square root of the whole number d2
\* rounded down.
IsFloorRootOf(v, d2) ==
    LET scaled == BigTimesPow10(BigOf(d2), 2 * WorkDigits)
    IN  /\ BigLeq(BigSquare(v), scaled)
        /\ BigLess(scaled, BigSquare(BigAdd(v, << 1 >>)))

\* The same for the roots of the table, worked out once.
RECURSIVE FloorRootsUpTo(_)
FloorRootsUpTo(n) ==
    IF n < 0 THEN << >>
    ELSE Append(FloorRootsUpTo(n - 1), IsFloorRootOf(RootTable[n + 1].v, n))

FloorRootTable == FloorRootsUpTo(MaxSquare)

\* r is np.sqrt(d2): the root of d2 with its digits.
IsRootOf(r, d2) ==
    /\ r.sq = d2
    /\ IF d2 <= MaxSquare
       THEN r.v = RootTable[d2 + 1].v /\ FloorRootTable[d2 + 1]
       ELSE IsFloorRootOf(r.v, d2)

\* s, a whole number of 10^-5 units, is the square root of the whole number
\* d2 rounded to Decimals digits: |s - sqrt(d2)| <= 1/2 unit.
IsRoundedRootOf(s, d2) ==
    LET scaled == BigTimesPow10(BigOf(4 * d2), 2 * Decimals)
    IN  /\ s >= 0
        /\ s >= 1 => BigLeq(BigSquare(BigOf(2 * s - 1)), scaled)
        /\ BigLeq(scaled, BigSquare(BigOf(2 * s + 1)))

\* The same for the rounded roots of the table, worked out once.
RECURSIVE RoundedRootsUpTo(_)
RoundedRootsUpTo(n) ==
    IF n < 0 THEN << >>
    ELSE Append(RoundedRootsUpTo(n - 1), IsRoundedRootOf(AroundTable[n + 1], n))

RoundedRootTable == RoundedRootsUpTo(MaxSquare)

\* s is np.around(np.sqrt(d2), 5).
IsRoundedRoot(s, d2) ==
    IF d2 <= MaxSquare
    THEN s = AroundTable[d2 + 1] /\ RoundedRootTable[d2 + 1]
    ELSE IsRoundedRootOf(s, d2)

\* C1: after complete() the list image_file_objects is in ascending order of
\* the canonical origin (z, then y, then x) of its slices, whatever the
\* order they were handed over in.
C1_FileObjectsSorted ==
    Completed =>
        \A i \in 1..(NumSlices - 1) :
            LexLeq(CanonicalOrigin(image_file_objects[i]),
                   CanonicalOrigin(image_file_objects[i + 1]))

\* C2: after complete() image_origin is the smallest canonical origin among
\* the slices (so it does not depend on the order they were handed over in).
C2_OriginIsSmallest ==
    Completed =>
        \A i \in 1..NumSlices :
            LexLeq(image_origin, CanonicalOrigin(image_file_objects[i]))

\* C3: with two or more slices, a warning about the spacing is emitted
\* exactly when some gap between consecutive sorted origins is more than
\* 1.2 times the smallest gap; then there is exactly one such warning and
\* slice_positions holds 0 followed by the running sums of the gaps (each
\* rounded to 5 decimals), one position per slice; otherwise there is none
\* and slice_positions is not assigned.  A stack that completes has no
\* other warning.
C3_IrregularSpacing ==
    Assembled =>
        /\ IF \E i \in Gaps : IsOutlier(i)
           THEN /\ Len(SpacingWarnings) = 1
                /\ Len(slice_positions) = NumSlices
                /\ slice_positions[1] = 0
                /\ \A i \in Gaps :
                       IsRoundedRoot(slice_positions[i + 1] - slice_positions[i],
                                     GapSquared(i))
           ELSE /\ SpacingWarnings = << >>
                /\ slice_positions = None
        /\ Completed => warnings = SpacingWarnings

\* The stack z = 0, 1, 3 gives the positions 0.0, 1.0, 3.0 and one warning.
C3_Witness ==
    /\ Completed
    /\ ColumnZ(position_table) = << 0, 1, 3 >>
    /\ Len(warnings) = 1
    /\ slice_positions = << 0, RoundUnit, 3 * RoundUnit >>

\* C4: with two or more slices, image_spacing[0] is the mean, rounded to 5
\* decimals, of exactly the gaps whose ratio to the smallest gap is at most
\* 1.2 (nan when there is no such gap), and image_spacing[1], [2] are the
\* nominal y and x spacing of the first slice file.  With S the sum of the
\* roots rounded down and k the number of them that are not whole, the
\* sum lies between S and S + k units of the working precision.
C4_ResolvedSpacing ==
    Assembled =>
        LET regular == { i \in Gaps : IsRegular(i) }
            count   == Cardinality(regular)
            cut     == Cardinality({ i \in regular :
                           \A n \in 0..GapSquared(i) : n * n # GapSquared(i) })
            total   == BigSum([i \in Gaps |->
                           IF i \in regular THEN slice_spacings[i].v ELSE << >>])
            half    == BigTimesPow10(BigOf(count), GuardDigits)
            twice   == BigTimesPow10(BigOf(2 * count * image_spacing[1].v), GuardDigits)
            nominal == GetSpacing(Metadata(image_file_objects[1]))
        IN  /\ \A i \in Gaps : IsRootOf(slice_spacings[i], GapSquared(i))
            /\ IF regular = {}
               THEN image_spacing[1].nan
               ELSE /\ ~image_spacing[1].nan
                    /\ image_spacing[1].v >= 0
                    /\ BigLeq(twice, BigAdd(BigTimes(BigAdd(total, BigOf(cut)), 2), half))
                    /\ BigLeq(BigTimes(total, 2), BigAdd(twice, half))
            /\ image_spacing[2] = Float(nominal[2] * RoundUnit)
            /\ image_spacing[3] = Float(nominal[1] * RoundUnit)

\* The stack z = 0, 1, 3: the gap of 2 is left out and the spacing is 1.0,
\* with the in-plane spacing of the metadata.
C4_Witness ==
    /\ Completed
    /\ ColumnZ(position_table) = << 0, 1, 3 >>
    /\ ~IsRegular(2)
    /\ image_spacing = << Float(RoundUnit), Float(3 * RoundUnit), Float(2 * RoundUnit) >>

\* C8: with two or more slices at distinct positions, row 0 of
\* image_orientation (the smallest consecutive delta along z, y and x, over
\* the resolved spacing) has norm 1 up to rounding, and rows 1 and 2 are
\* those of the first slice's direction matrix read backwards.
C8_ZRowUnitNorm ==
    (Completed /\ \A i \in Gaps : GapSquared(i) > 0) =>
        LET row == image_orientation[1]
            part(k) == Abs(row[k].num) \div Pow10(Decimals - 3)
            whole == row[1].den \div Pow10(Decimals - 3)
            flat == Reversed(GetDirection(Metadata(image_file_objects[1])))
        IN  /\ \A k \in 1..3 : ~row[k].nan
            /\ 100 * Abs(part(1) * part(1) + part(2) * part(2)
                         + part(3) * part(3) - whole * whole)
                   <= whole * whole
            /\ \A r \in 2..3 : \A c \in 1..3 :
                   image_orientation[r][c] = Quotient(flat[3 * (r - 1) + c], Float(1))

\* C9: a stack of one slice completes with image_spacing equal to the
\* slice's nominal spacing, without a warning and without an error.
C9_SingleSlice ==
    (stack_pc \in {"completed", "raised"} /\ NumSlices = 1) =>
        LET nominal == Reversed(GetSpacing(Metadata(image_file_objects[1])))
        IN  /\ stack_pc = "completed"
            /\ stack_error = "none"
            /\ warnings = << >>
            /\ image_spacing = [k \in 1..3 |-> Float(nominal[k] * RoundUnit)]

\* C10: with two or more slices and all gaps positive, some gap is within
\* the threshold, the resolved spacing r satisfies min <= r <= 1.2 * min up
\* to the rounding to 5 decimals (min the smallest gap), and every
\* component of image_spacing is positive.
C10_SpacingBounds ==
    (Assembled /\ \A i \in Gaps : GapSquared(i) > 0) =>
        LET r == image_spacing[1]
        IN  /\ \E i \in Gaps : WithinThreshold(multipliers[i])
            /\ \E i \in Gaps : /\ GapSquared(i) = MinGapSquared
                                  /\ WithinThreshold(multipliers[i])
            /\ ~r.nan
            /\ r.v >= 1
            /\ BigLeq(BigTimesPow10(BigOf(4 * MinGapSquared), 2 * Decimals),
                      BigSquare(BigOf(2 * r.v + 1)))
            /\ BigLeq(BigTimes(BigSquare(BigOf(2 * r.v - 1)), ThresholdDen * ThresholdDen),
                      BigTimesPow10(BigOf(4 * ThresholdNum * ThresholdNum * MinGapSquared),
                                    2 * Decimals))
            /\ \A k \in 1..3 : ~image_spacing[k].nan /\ image_spacing[k].v > 0

\* A stack whose second gap, sqrt(5), is more than twice the first.
C10_Witness ==
    /\ Completed
    /\ Len(position_table) = 3
    /\ GapSquared(1) = 1
    /\ GapSquared(2) = 5
    /\ image_spacing[1] = Float(RoundUnit)

-----------------------------------------------------------------------------
(* Properties of the images, checked under SpecImage.                      *)

Called == last_call.op # "none"
OnCTImage == Called /\ last_call.receiver.class = "CTImage"

\* The last call was scale_intensities(1.0) or normalise_intensities with
\* None or "none".
IdentityCall ==
    \/ last_call.op = "scale_intensities" /\ last_call.arg = 1
    \/ last_call.op = "normalise_intensities" /\ last_call.arg \in {PyNone, "none"}

\* The last call was scale_intensities with another scale or
\* normalise_intensities with another method.
TransformCall ==
    \/ last_call.op = "scale_intensities" /\ last_call.arg # 1
    \/ last_call.op = "normalise_intensities" /\ last_call.arg \notin {PyNone, "none"}

\* new is the voxel data old after the transformation the last call asked
\* for: every value multiplied by the scale, or the normalisation (the
\* scaling of normalised values) noted.
IsTransformedFrom(new, old) ==
    IF last_call.op = "scale_intensities" /\ old.then = << >>
    THEN /\ new.then = << >>
         /\ DOMAIN new.values = DOMAIN old.values
         /\ \A i \in DOMAIN old.values : new.values[i] = last_call.arg * old.values[i]
    ELSE /\ new.values = old.values
         /\ new.then =
                Append(old.then,
                       [op |-> IF last_call.op = "scale_intensities"
                               THEN "scale" ELSE "normalise",
                        by |-> last_call.arg])

\* The entity returned is a new GenericImage with the receiver's data
\* transformed and the receiver's geometry; the receiver is as it was.
Demoted ==
    /\ cur # prev
    /\ cur = Len(heap)
    /\ heap[prev] = last_call.receiver
    /\ heap[prev].class = "CTImage"
    /\ heap[cur].class = "GenericImage"
    /\ heap[cur].geometry = last_call.receiver.geometry
    /\ heap[cur].image_data # None
    /\ IsTransformedFrom(heap[cur].image_data[1], last_call.receiver.image_data[1])

\* C5: on a CTImage, scale_intensities(1.0) and normalise_intensities with
\* None or "none" return the entity they were called on, still a CTImage
\* and with the voxel data it had.
C5_IdentityReturnsSelf ==
    (OnCTImage /\ IdentityCall) =>
        /\ cur = prev
        /\ heap[cur] = last_call.receiver
        /\ heap[cur].class = "CTImage"

C5_Witness ==
    /\ OnCTImage
    /\ last_call.op = "scale_intensities"
    /\ last_call.arg = 1
    /\ last_call.receiver.image_data # None
    /\ cur = prev

\* C6 as stated: on a CTImage, every scale_intensities with a scale other
\* than 1.0 and every normalise_intensities with a method other than None
\* and "none" returns a new GenericImage with the transformed data and the
\* geometry of the CTImage.
C6_AlwaysDemoted ==
    (OnCTImage /\ TransformCall) => Demoted

\* C6, amended: the same for a CTImage that holds voxel data (image_data is
\* not None); without data the CTImage itself is returned.
C6_DemotedWithData ==
    /\ (OnCTImage /\ TransformCall /\ last_call.receiver.image_data # None)
           => Demoted
    /\ (OnCTImage /\ TransformCall /\ last_call.receiver.image_data = None)
           => cur = prev /\ heap[cur].class = "CTImage"

\* A CTImage with the values -1.5, 0.5, 2.5 was scaled by 2.
C6_Witness ==
    /\ OnCTImage
    /\ last_call.op = "scale_intensities"
    /\ last_call.arg = 2
    /\ last_call.receiver.image_data = << [values |-> << -3, 1, 5 >>, then |-> << >>] >>
    /\ heap[cur].image_data = << [values |-> << -6, 2, 10 >>, then |-> << >>] >>
    /\ Demoted

\* C7: once the entity the caller holds is a GenericImage, the entity
\* returned by any further call is a GenericImage; no object of the heap
\* turns from a GenericImage into a CTImage.
C7_DemotionIsOneWay ==
    [][/\ heap[cur].class = "GenericImage" => heap'[cur'].class = "GenericImage"
       /\ \A id \in DOMAIN heap :
              heap[id].class = "GenericImage" =>
                  id \in DOMAIN heap' /\ heap'[id].class = "GenericImage"]_vars

\* A CTImage was demoted and the GenericImage returned was transformed again.
C7_Witness ==
    /\ last_call.n >= 2
    /\ heap[1].class = "CTImage"
    /\ cur # 1
    /\ last_call.receiver.class = "GenericImage"
    /\ TransformCall
    /\ last_call.receiver # heap[cur]
    /\ heap[cur].class = "GenericImage"

=============================================================================
